---- MODULE Spec2Model ----
(***************************************************************************)
(* The R container of r_bring_your_own.ipynb: mars.R (start-up dispatch,   *)
(* train, serve) and plumber.R (POST /ping, POST /invocations).            *)
(*                                                                         *)
(* Text is modelled as sequences of one-character strings so that          *)
(* grepl() and as.numeric() are computed, not assumed.  Files are records  *)
(* with a "kind" field.  The MARS library (mars, predict) is an opaque     *)
(* deterministic function of its arguments.                                *)
(***************************************************************************)
EXTENDS Integers, Sequences, FiniteSets, TLC

VARIABLES
    args,        \* commandArgs(): the process arguments
    pc,          \* position of the mars.R script
    exitStatus,  \* "none" while running, then "zero" or "nonzero"
    trainCalls,  \* number of invocations of train()
    serveCalls,  \* number of invocations of serve()
    frame,       \* local variables of the running train() call
    artifact,    \* /opt/ml/model/mars_model.RData
    fitted,      \* /opt/ml/output/data/fitted_values.csv
    success,     \* /opt/ml/output/success
    writes,      \* files written by this process, in order
    fitCall,     \* the arguments mars() was called with
    globalEnv,   \* model objects bound in the R global environment
    slots,       \* in-flight POST /invocations requests
    pingReply,   \* the reply of POST /ping being sent
    notebook     \* the notebook's cells, its variable status, and the
                 \* training job and endpoint of the platform

vars == <<args, pc, exitStatus, trainCalls, serveCalls, frame, artifact,
          fitted, success, writes, fitCall, globalEnv, slots, pingReply,
          notebook>>

----------------------------------------------------------------------------
(* Bounds *)

\* number of prediction requests the HTTP server may have in flight at once
MaxInFlight == 2

----------------------------------------------------------------------------
(* Text *)

Train == <<"t", "r", "a", "i", "n">>
Serve == <<"s", "e", "r", "v", "e">>
NoSave == <<"-", "-", "n", "o", "-", "s", "a", "v", "e">>
Retrain == <<"r", "e", "t", "r", "a", "i", "n">>

\* grepl(pattern, x) for a literal pattern: x contains pattern as a substring
grepl(pattern, x) ==
    \E i \in 1..(Len(x) - Len(pattern) + 1) :
        SubSeq(x, i, i + Len(pattern) - 1) = pattern

\* any(grepl(pattern, args))
anyGreplMutant(pattern, a) == \E k \in 1..Len(a) : grepl(Train, a[k])
anyGrepl(pattern, a) == \E k \in 1..Len(a) : grepl(pattern, a[k])

\* The argument lists the container is started with: the Dockerfile's
\* "--no-save" followed by the arguments given to docker run.
ArgLists ==
    { <<NoSave>>,
      <<NoSave, Train>>,
      <<NoSave, Serve>>,
      <<NoSave, Train, Serve>>,
      <<NoSave, Retrain>> }

----------------------------------------------------------------------------
(* Hyperparameters: jsonlite::read_json and as.numeric *)

\* A JSON member of hyperparameters.json as read_json returns it.
JAbsent == [t |-> "absent", s |-> <<>>, n |-> 0]
JNull == [t |-> "null", s |-> <<>>, n |-> 0]
JStr(str) == [t |-> "str", s |-> str, n |-> 0]
JNum(num) == [t |-> "num", s |-> <<>>, n |-> num]

\* training_params$key is NULL when the key is missing or is JSON null
is_null(v) == v.t \in {"absent", "null"}

DigitChars == <<"0", "1", "2", "3", "4", "5", "6", "7", "8", "9">>

IsDigit(c) == \E i \in 1..Len(DigitChars) : DigitChars[i] = c

DigitVal(c) == (CHOOSE i \in 1..Len(DigitChars) : DigitChars[i] = c) - 1

RECURSIVE ParseDigits(_)
ParseDigits(str) ==
    IF str = <<>> THEN 0
    ELSE ParseDigits(SubSeq(str, 1, Len(str) - 1)) * Len(DigitChars)
         + DigitVal(str[Len(str)])

\* An R numeric: NA or a value.
NA_real == [na |-> TRUE, v |-> 0]
Real(x) == [na |-> FALSE, v |-> x]

\* as.numeric(v) for a JSON number or a JSON string; a string that is not a
\* number gives NA (with a warning, not an error).  The strings of the model
\* are digit strings and words.
as_numeric(v) ==
    IF v.t = "num" THEN Real(v.n)
    ELSE IF v.t = "str" /\ Len(v.s) > 0 /\ \A i \in 1..Len(v.s) : IsDigit(v.s[i])
         THEN Real(ParseDigits(v.s))
    ELSE NA_real

\* the default of train(): degree <- 2
DefaultDegree == 2

\* lines 121-124 of train()
DegreeOfMutant(params) ==
    IF ~is_null(params.degree) THEN as_numeric(params.degree)
    ELSE Real(DefaultDegree + 1)
DegreeOf(params) ==
    IF ~is_null(params.degree) THEN as_numeric(params.degree)
    ELSE Real(DefaultDegree)

TargetName == "Sepal.Length"

\* training_params$target: NULL when the key is missing
TargetOf(params) == params.target

\* The hyperparameter files train() is run with.
DegreeValues ==
    { JAbsent, JNull, JNum(2), JStr(<<"2">>), JStr(<<"0", "2">>),
      JStr(<<"1">>), JStr(<<"t", "w", "o">>) }

HyperParameters ==
    [ target : {[null |-> FALSE, name |-> TargetName]}, degree : DegreeValues ]
    \cup [ target : {[null |-> TRUE, name |-> ""]}, degree : {JStr(<<"2">>)} ]

----------------------------------------------------------------------------
(* Delimited text and data frames: read.csv, rbind, model.matrix *)

\* A file or request body is a sequence of lines, a line a sequence of
\* cells.  The texts of the model are empty or rectangular with at least
\* one record after the header.

\* The cell texts of the model and their characters: the numbers, the
\* category names and the missing value.
CellChars(cell) ==
    CASE cell = "5.1" -> <<"5", ".", "1">>
      [] cell = "3.5" -> <<"3", ".", "5">>
      [] cell = "3.0" -> <<"3", ".", "0">>
      [] cell = "1" -> <<"1">>
      [] cell = "setosa" -> <<"s", "e", "t", "o", "s", "a">>
      [] cell = "versicolor" -> <<"v", "e", "r", "s", "i", "c", "o", "l", "o", "r">>
      [] cell = "virginica" -> <<"v", "i", "r", "g", "i", "n", "i", "c", "a">>
      [] cell = "NA" -> <<"N", "A">>

\* type.convert, which read.csv applies to every column: a text is a number
\* when it is an optional sign and digits with at most one decimal point.
\* (Exponent, hexadecimal, Inf and NaN spellings are not among the texts.)
IsNumberText(chars) ==
    LET digits == IF chars /= <<>> /\ Head(chars) \in {"+", "-"}
                  THEN Tail(chars) ELSE chars
    IN /\ \E i \in DOMAIN digits : IsDigit(digits[i])
       /\ \A i \in DOMAIN digits : IsDigit(digits[i]) \/ digits[i] = "."
       /\ Cardinality({i \in DOMAIN digits : digits[i] = "."}) <= 1

\* the cells read.csv converts to numbers
NumericCells(vals) == {v \in vals : IsNumberText(CellChars(v))}

\* sort() order of the texts a factor can hold
CategoryOrder == <<"1", "setosa", "versicolor", "virginica">>

Rank(c) == CHOOSE i \in 1..Len(CategoryOrder) : CategoryOrder[i] = c

Range(f) == {f[i] : i \in DOMAIN f}

\* the cell read.csv reads as a missing value (na.strings = "NA")
NA_cell == "NA"

\* the cells of a column that are not missing
Present(vals) == Range(vals) \ {NA_cell}

\* sort(unique(values))
RECURSIVE SortSet(_)
SortSet(S) ==
    IF S = {} THEN <<>>
    ELSE LET m == CHOOSE x \in S : \A y \in S : Rank(x) <= Rank(y)
         IN <<m>> \o SortSet(S \ {m})

\* the elements of seq that are not in S, in their order
RECURSIVE Without(_, _)
Without(seq, S) ==
    IF seq = <<>> THEN <<>>
    ELSE IF Head(seq) \in S THEN Without(Tail(seq), S)
    ELSE <<Head(seq)>> \o Without(Tail(seq), S)

NullFrame == [isnull |-> TRUE, nrow |-> 0, names |-> <<>>, cols |-> <<>>]

\* One column as read.csv types it.  The image installs the r-base of
\* ubuntu:16.04 (R 3.2), where stringsAsFactors is TRUE: a column whose
\* cells all read as numbers is a number column (integer or double, which
\* model.matrix treats alike), whatever the field is; a column with another
\* cell becomes a factor whose levels are its sorted values.  Missing
\* cells count for neither.  (A column of the model has a cell that is not
\* missing.)
CsvColumn(vals) ==
    IF NumericCells(Present(vals)) = Present(vals)
    THEN [type |-> "numeric", levels |-> <<>>, vals |-> vals]
    ELSE [type |-> "factor", levels |-> SortSet(Present(vals)), vals |-> vals]

\* read.csv fails on an input without lines
read_csv_fails(lines) == Len(lines) = 0

\* read.csv(lines): the first line is the header
read_csv(lines) ==
    [ isnull |-> FALSE,
      nrow |-> Len(lines) - 1,
      names |-> lines[1],
      cols |-> [j \in 1..Len(lines[1]) |->
                  CsvColumn([i \in 1..(Len(lines) - 1) |-> lines[i + 1][j]])] ]

\* rbind of two data frames with the same fields and types: the rows of a
\* then the rows of b; a factor keeps the levels of a, then the new ones of b
rbind2(a, b) ==
    [ isnull |-> FALSE,
      nrow |-> a.nrow + b.nrow,
      names |-> a.names,
      cols |-> [j \in 1..Len(a.cols) |->
                  [ type |-> a.cols[j].type,
                    levels |-> a.cols[j].levels
                               \o Without(b.cols[j].levels, Range(a.cols[j].levels)),
                    vals |-> a.cols[j].vals \o b.cols[j].vals ]] ]

\* do.call(rbind, frames): NULL for no frame
RECURSIVE rbind(_)
rbind(frames) ==
    IF frames = <<>> THEN NullFrame
    ELSE IF Len(frames) = 1 THEN frames[1]
    ELSE rbind2(rbind(SubSeq(frames, 1, Len(frames) - 1)), frames[Len(frames)])

\* the indexes of seq whose element satisfies keep
RECURSIVE Positions(_, _, _)
Positions(seq, keep, from) ==
    IF from > Len(seq) THEN <<>>
    ELSE IF seq[from] \in keep THEN <<from>> \o Positions(seq, keep, from + 1)
    ELSE Positions(seq, keep, from + 1)

\* training_data[, colnames(training_data) != target]: a NULL target
\* compares to logical(0) and selects no column
DropTarget(df, target) ==
    LET keep == IF target.null THEN {} ELSE Range(df.names) \ {target.name}
        idx == Positions(df.names, keep, 1)
    IN [ isnull |-> FALSE,
         nrow |-> df.nrow,
         names |-> [k \in 1..Len(idx) |-> df.names[idx[k]]],
         cols |-> [k \in 1..Len(idx) |-> df.cols[idx[k]]] ]

\* training_data[, target]: the target column; no column for a NULL target
TargetColumn(df, target) ==
    IF target.null THEN <<>>
    ELSE LET j == CHOOSE j \in 1..Len(df.names) : df.names[j] = target.name
         IN df.cols[j].vals

\* lapply(training_data[, sapply(training_data, is.factor), drop=FALSE],
\*        levels): the levels of every factor field, by field name
FactorLevels(df) ==
    LET idx == Positions([j \in 1..Len(df.cols) |-> df.cols[j].type], {"factor"}, 1)
    IN [k \in 1..Len(idx) |->
          [name |-> df.names[idx[k]], levels |-> df.cols[idx[k]].levels]]

\* xlev[[name]]: the levels recorded for a field, <<>> when there are none
XlevOf(xlev, name) ==
    IF \E k \in 1..Len(xlev) : xlev[k].name = name
    THEN xlev[CHOOSE k \in 1..Len(xlev) : xlev[k].name = name].levels
    ELSE <<>>

\* na.omit, the na.action of model.frame: the records without a missing
\* cell, in their order
RECURSIVE CompleteRows(_, _)
CompleteRows(df, from) ==
    IF from > df.nrow THEN <<>>
    ELSE IF \A j \in 1..Len(df.cols) : df.cols[j].vals[from] /= NA_cell
         THEN <<from>> \o CompleteRows(df, from + 1)
    ELSE CompleteRows(df, from + 1)

\* model.frame(xlev=): after na.omit and after dropping the levels no kept
\* record holds, a factor with a recorded mapping that holds a value outside
\* the mapping is an error ("factor ... has new levels")
HasNewLevels(col, xl, kept) ==
    /\ col.type = "factor"
    /\ xl /= <<>>
    /\ ~({col.vals[kept[i]] : i \in 1..Len(kept)} \subseteq Range(xl))

\* model.frame(xlev=): the levels a factor is coded with are the recorded
\* mapping when there is one, and its own levels otherwise; a recorded
\* mapping for a field that is not a factor of the data, or not a field of
\* it, is passed over with a warning
CodingLevels(col, xl) ==
    IF col.type = "factor" /\ xl /= <<>> THEN xl ELSE col.levels

\* model.matrix(~., df, xlev) stops on a data frame without a column ("'.'
\* in formula and no 'data' argument"), on a factor with new levels and on
\* a factor coded with fewer than two levels ("contrasts can be applied
\* only to factors with 2 or more levels")
model_matrix_fails(df, xlev) ==
    \/ df.cols = <<>>
    \/ \E j \in 1..Len(df.cols) :
          LET xl == XlevOf(xlev, df.names[j])
          IN \/ HasNewLevels(df.cols[j], xl, CompleteRows(df, 1))
             \/ /\ df.cols[j].type = "factor"
                /\ Len(CodingLevels(df.cols[j], xl)) < 2

\* a column name of the design matrix: the field, and for an indicator
\* column the level it indicates
Intercept == [field |-> "(Intercept)", level |-> ""]

RECURSIVE Flatten(_)
Flatten(seqs) ==
    IF seqs = <<>> THEN <<>> ELSE Head(seqs) \o Flatten(Tail(seqs))

\* the columns one field expands to: itself when numeric, one indicator per
\* level but the first (treatment contrasts) when a factor
FieldColumns(name, col, xl) ==
    IF col.type = "numeric" THEN <<[field |-> name, level |-> ""]>>
    ELSE LET lv == CodingLevels(col, xl)
         IN [k \in 1..(Len(lv) - 1) |-> [field |-> name, level |-> lv[k + 1]]]

\* the cells of one record for one field
FieldCells(col, xl, i) ==
    IF col.type = "numeric" THEN <<col.vals[i]>>
    ELSE LET lv == CodingLevels(col, xl)
         IN [k \in 1..(Len(lv) - 1) |->
               IF col.vals[i] = lv[k + 1] THEN "1" ELSE "0"]

\* no design matrix
NoMatrix == [cols |-> <<>>, rows |-> <<>>]

\* model.matrix(~., df, xlev=xlev): the intercept, then every field in the
\* order of the data frame; one row per record that na.omit keeps; no
\* matrix when the call stops
model_matrix(df, xlev) ==
    IF model_matrix_fails(df, xlev) THEN NoMatrix
    ELSE
    [ cols |-> <<Intercept>> \o
               Flatten([j \in 1..Len(df.cols) |->
                   FieldColumns(df.names[j], df.cols[j], XlevOf(xlev, df.names[j]))]),
      rows |-> LET kept == CompleteRows(df, 1)
               IN [i \in 1..Len(kept) |->
                     <<"1">> \o
                     Flatten([j \in 1..Len(df.cols) |->
                         FieldCells(df.cols[j], XlevOf(xlev, df.names[j]), kept[i])])] ]

----------------------------------------------------------------------------
(* The MARS library and the files of the container *)

\* the arguments of a call of mars(); made is FALSE before any call
NoCall == [made |-> FALSE, x |-> NoMatrix, y |-> <<>>, degree |-> NA_real]
MarsCall(x, y, degree) == [made |-> TRUE, x |-> x, y |-> y, degree |-> degree]

\* mars() hands degree to compiled code, which rejects NA
mars_fails(call) == call.degree.na

\* mars(x, y, degree): the fitted parameters are a function of the arguments;
\* the object also carries one fitted value per record
NoModel == [coef |-> NoCall, nfitted |-> 0]
mars(call) == [coef |-> call, nfitted |-> Len(call.x.rows)]

\* model[!(names(model) %in% c('x', 'residuals', 'fitted.values'))]
Trimmed(model) == [coef |-> model.coef]

\* predict(mars_model, X): one value per row of X
predict(mars_model, X) ==
    [i \in 1..Len(X.rows) |-> [coef |-> mars_model.coef, x |-> X.rows[i]]]

\* a piece of the response line: a value or a comma
ValueToken(v) == [comma |-> FALSE, value |-> v]
CommaToken == [comma |-> TRUE, value |-> [coef |-> NoCall, x |-> <<>>]]

\* paste(values, collapse=','): the values with a comma between neighbours;
\* the empty string for no value
RECURSIVE paste_collapse(_)
paste_collapse(values) ==
    IF values = <<>> THEN <<>>
    ELSE IF Len(values) = 1 THEN <<ValueToken(values[1])>>
    ELSE <<ValueToken(values[1]), CommaToken>> \o paste_collapse(Tail(values))

NoFile == [kind |-> "none"]

\* save(mars_model, factor_levels, file=.../mars_model.RData)
RData(mars_model, factor_levels) ==
    [kind |-> "rdata", mars_model |-> mars_model, factor_levels |-> factor_levels]

\* write.csv(model$fitted.values, ..., row.names=FALSE)
FittedCsv(model) == [kind |-> "csv", nrow |-> model.nfitted]

\* write('success', file=.../success)
SuccessFile == [kind |-> "text", text |-> "success"]

ArtifactName == "model/mars_model.RData"
FittedName == "output/data/fitted_values.csv"
SuccessName == "output/success"

----------------------------------------------------------------------------
(* Inputs *)

Header == <<"Sepal.Length", "Sepal.Width", "Species">>

\* a training file: the header and one record per category value
TrainingFile(species) ==
    <<Header>> \o [i \in 1..Len(species) |-> <<"5.1", "3.5", species[i]>>]

\* The contents of /opt/ml/input/data/train: no file; one file with two
\* categories; two files whose categories appear in reverse sort order; one
\* file with a single category.
TrainingSets ==
    { <<>>,
      <<TrainingFile(<<"setosa", "versicolor">>)>>,
      <<TrainingFile(<<"versicolor">>), TrainingFile(<<"setosa">>)>>,
      <<TrainingFile(<<"setosa">>)>> }

NoParams == [target |-> [null |-> TRUE, name |-> ""], degree |-> JAbsent]

\* the local variables of train() before it has assigned them
EmptyFrame ==
    [ training_params |-> NoParams,
      degree |-> NA_real,
      training_data |-> NullFrame,
      training_X |-> NoMatrix,
      factor_levels |-> <<>>,
      model |-> NoModel ]

\* do.call(rbind, lapply(training_files, read.csv))
TrainingData(files) == rbind([k \in 1..Len(files) |-> read_csv(files[k])])

\* model.matrix(~., training_data[, colnames(training_data) != target])
TrainingX(data, target) == model_matrix(DropTarget(data, target), <<>>)

\* the artifact train() saves for a data set and hyperparameters
TrainedArtifact(files, params) ==
    LET data == TrainingData(files)
        call == MarsCall(TrainingX(data, TargetOf(params)),
                         TargetColumn(data, TargetOf(params)),
                         DegreeOf(params))
    IN RData(Trimmed(mars(call)), FactorLevels(data))

\* The artifacts a serving container is given: trained with the notebook's
\* hyperparameters on the data sets that have two categories.
ServingArtifacts ==
    { TrainedArtifact(files,
                      [target |-> [null |-> FALSE, name |-> TargetName],
                       degree |-> JStr(<<"2">>)]) :
        files \in { f \in TrainingSets :
                      /\ f /= <<>>
                      /\ ~model_matrix_fails(
                            DropTarget(TrainingData(f),
                                       [null |-> FALSE, name |-> TargetName]),
                            <<>>) } }

\* a request body: the header of the feature fields and one record per
\* category value
RequestHeader == <<"Sepal.Width", "Species">>

RequestText(species) ==
    <<RequestHeader>> \o [i \in 1..Len(species) |-> <<"3.5", species[i]>>]

\* The request bodies: one complete record with a known category, as in the
\* notebook's payload; two known categories around a record whose category
\* is missing; a category no training set holds; a category spelled as a
\* number; a body without the category field; an empty body.
RequestBodies ==
    { RequestText(<<"setosa">>),
      RequestText(<<"versicolor", NA_cell, "setosa">>),
      RequestText(<<"virginica">>),
      RequestText(<<"1">>),
      <<<<"Sepal.Width">>, <<"3.5">>>>,
      <<>> }

NoResponse == [status |-> "none", values |-> <<>>, text |-> <<>>]
ErrorResponse == [status |-> "500", values |-> <<>>, text |-> <<>>]

IdleSlot ==
    [ pc |-> "idle", postBody |-> <<>>, seen |-> NoFile, env |-> NoFile,
      scoring_X |-> NoMatrix, resp |-> NoResponse ]

\* list(status='200', code='200')
PingPayloadMutant == [status |-> "200", code |-> "500"]
PingPayload == [status |-> "200", code |-> "200"]

NoReply == [status |-> "", code |-> ""]

\* the notebook before the create_training_job cell is run
NotebookStart ==
    [ cell |-> "train_create",
      status |-> "",
      jobStatus |-> "",
      endpointStatus |-> "",
      jobAtReturn |-> "",
      endpointAtReturn |-> "",
      raised |-> "" ]

----------------------------------------------------------------------------
(* Start-up *)

Init ==
    /\ args \in ArgLists
    /\ pc = "start"
    /\ exitStatus = "none"
    /\ trainCalls = 0
    /\ serveCalls = 0
    /\ frame = EmptyFrame
    \* a training container starts with an empty model directory; a serving
    \* container is given an artifact, or none
    /\ artifact \in IF anyGrepl(Train, args) THEN {NoFile}
                    ELSE {NoFile} \cup ServingArtifacts
    /\ fitted = NoFile
    /\ success = NoFile
    /\ writes = <<>>
    /\ fitCall = NoCall
    /\ globalEnv = NoFile
    /\ slots = [r \in 1..MaxInFlight |-> IdleSlot]
    /\ pingReply = NoReply
    /\ notebook = NotebookStart

serving == <<globalEnv, slots, pingReply>>
disk == <<artifact, fitted, success, writes>>

----------------------------------------------------------------------------
(* mars.R: start-up dispatch *)

\* if (any(grepl('train', args))) { train() }
DispatchTrain ==
    /\ pc = "start"
    /\ IF anyGrepl(Train, args)
       THEN /\ pc' = "t_params"
            /\ trainCalls' = trainCalls + 1
       ELSE /\ pc' = "d_serve"
            /\ UNCHANGED trainCalls
    /\ UNCHANGED <<notebook, args, exitStatus, serveCalls, frame, fitCall, disk, serving>>

\* if (any(grepl('serve', args))) { serve() }: serve() runs the listener and
\* does not return; without the keyword the script ends and Rscript exits 0
DispatchServe ==
    /\ pc = "d_serve"
    /\ IF anyGrepl(Serve, args)
       THEN /\ pc' = "serving"
            /\ serveCalls' = serveCalls + 1
            /\ UNCHANGED exitStatus
       ELSE /\ pc' = "exited"
            /\ exitStatus' = "zero"
            /\ UNCHANGED serveCalls
    /\ UNCHANGED <<notebook, args, trainCalls, frame, fitCall, disk, serving>>

HaltMutant ==
    /\ pc' = "d_serve"
    /\ exitStatus' = exitStatus
    /\ frame' = EmptyFrame

\* An R error nobody catches: Rscript stops the script and exits non-zero.
Halt ==
    /\ pc' = "exited"
    /\ exitStatus' = "nonzero"
    /\ frame' = EmptyFrame

----------------------------------------------------------------------------
(* mars.R: train() *)

\* training_params <- read_json(param_path); target; degree.  read_json
\* stops on a missing or unreadable file.
TrainReadParams ==
    /\ pc = "t_params"
    /\ \/ \E params \in HyperParameters :
            /\ frame' = [frame EXCEPT !.training_params = params,
                                      !.degree = DegreeOf(params)]
            /\ pc' = "t_data"
            /\ UNCHANGED exitStatus
       \/ Halt
    /\ UNCHANGED <<notebook, args, trainCalls, serveCalls, fitCall, disk, serving>>

\* training_files = list.files(...); training_data = do.call(rbind, ...).
\* read.csv stops on an unreadable file.
TrainReadData ==
    /\ pc = "t_data"
    /\ \/ \E files \in TrainingSets :
            /\ frame' = [frame EXCEPT !.training_data = TrainingData(files)]
            /\ pc' = "t_matrix"
            /\ UNCHANGED exitStatus
       \/ Halt
    /\ UNCHANGED <<notebook, args, trainCalls, serveCalls, fitCall, disk, serving>>

\* training_X <- model.matrix(...); factor_levels <- lapply(...).  Indexing
\* the NULL of an empty input directory stops, and so does model.matrix on
\* the empty selection of a NULL target and on a factor with one level.
TrainModelMatrix ==
    /\ pc = "t_matrix"
    /\ LET data == frame.training_data
           target == TargetOf(frame.training_params)
       IN IF data.isnull \/ model_matrix_fails(DropTarget(data, target), <<>>)
          THEN Halt
          ELSE /\ frame' = [frame EXCEPT !.training_X = TrainingX(data, target),
                                         !.factor_levels = FactorLevels(data)]
               /\ pc' = "t_fit"
               /\ UNCHANGED exitStatus
    /\ UNCHANGED <<notebook, args, trainCalls, serveCalls, fitCall, disk, serving>>

\* model <- mars(x=training_X, y=training_data[, target], degree=degree).
\* The call stops on an NA degree.
TrainFit ==
    /\ pc = "t_fit"
    /\ LET target == TargetOf(frame.training_params)
           call == MarsCall(frame.training_X,
                            TargetColumn(frame.training_data, target),
                            frame.degree)
       IN /\ fitCall' = call
          /\ IF mars_fails(call)
             THEN Halt
             ELSE /\ frame' = [frame EXCEPT !.model = mars(call)]
                  /\ pc' = "t_save"
                  /\ UNCHANGED exitStatus
    /\ UNCHANGED <<notebook, args, trainCalls, serveCalls, disk, serving>>

\* mars_model <- model[...]; save(mars_model, factor_levels, file=...);
\* print(summary(mars_model)).  save stops when the file cannot be written.
TrainSave ==
    /\ pc = "t_save"
    /\ \/ /\ artifact' = RData(Trimmed(frame.model), frame.factor_levels)
          /\ writes' = Append(writes, ArtifactName)
          /\ pc' = "t_fitted"
          /\ UNCHANGED <<exitStatus, frame>>
       \/ /\ Halt
          /\ UNCHANGED <<artifact, writes>>
    /\ UNCHANGED <<notebook, args, trainCalls, serveCalls, fitCall, fitted, success, serving>>

TrainWriteFittedMutant ==
    /\ pc = "t_fitted"
    /\ \/ /\ success' = SuccessFile
          /\ writes' = Append(writes, SuccessName)
          /\ pc' = "t_success"
          /\ UNCHANGED <<exitStatus, frame>>
       \/ /\ Halt
          /\ UNCHANGED <<success, writes>>
    /\ UNCHANGED <<notebook, args, trainCalls, serveCalls, fitCall, artifact, fitted, serving>>

\* write.csv(model$fitted.values, .../fitted_values.csv, row.names=FALSE)
TrainWriteFitted ==
    /\ pc = "t_fitted"
    /\ \/ /\ fitted' = FittedCsv(frame.model)
          /\ writes' = Append(writes, FittedName)
          /\ pc' = "t_success"
          /\ UNCHANGED <<exitStatus, frame>>
       \/ /\ Halt
          /\ UNCHANGED <<fitted, writes>>
    /\ UNCHANGED <<notebook, args, trainCalls, serveCalls, fitCall, artifact, success, serving>>

\* write('success', file=.../success), the last statement of train(): the
\* function returns to the start-up code
TrainWriteSuccess ==
    /\ pc = "t_success"
    /\ \/ /\ success' = SuccessFile
          /\ writes' = Append(writes, SuccessName)
          /\ pc' = "d_serve"
          /\ frame' = EmptyFrame
          /\ UNCHANGED exitStatus
       \/ /\ Halt
          /\ UNCHANGED <<success, writes>>
    /\ UNCHANGED <<notebook, args, trainCalls, serveCalls, fitCall, artifact, fitted, serving>>

process == <<args, pc, exitStatus, trainCalls, serveCalls, frame, fitCall>>

----------------------------------------------------------------------------
(* plumber.R *)

\* req$postBody of the request in a slot
postBodyMutant(r) == slots[1].postBody
postBody(r) == slots[r].postBody

\* load(file): binds mars_model and factor_levels in the frame of the
\* calling handler; the global environment is not touched.  Gives the
\* handler's bindings and the global environment's.
loadMutant(file, genv) ==
    IF genv.kind = "rdata" THEN [local |-> genv, global |-> genv]
    ELSE [local |-> file, global |-> file]
load(file, genv) == [local |-> file, global |-> genv]

\* the handler after load(): read.csv of the body, model.matrix with the
\* artifact's factor levels, predict; an R error ends the request
invocations(env, body) ==
    IF read_csv_fails(body)
    THEN [scoring_X |-> NoMatrix, resp |-> ErrorResponse]
    ELSE LET data == read_csv(body)
         IN IF model_matrix_fails(data, env.factor_levels)
            THEN [scoring_X |-> NoMatrix, resp |-> ErrorResponse]
            ELSE LET X == model_matrix(data, env.factor_levels)
                 IN [scoring_X |-> X,
                     resp |-> [status |-> "200",
                               values |-> predict(env.mars_model, X),
                               text |-> paste_collapse(predict(env.mars_model, X))]]

\* A POST /invocations request reaches the server; it takes the first free
\* slot.
Arrive(r) ==
    /\ pc = "serving"
    /\ slots[r].pc = "idle"
    /\ \A q \in 1..(r - 1) : slots[q].pc /= "idle"
    /\ \E body \in RequestBodies :
          slots' = [slots EXCEPT ![r] = [IdleSlot EXCEPT !.pc = "arrived",
                                                         !.postBody = body]]
    /\ UNCHANGED <<notebook, process, disk, globalEnv, pingReply>>

\* load(paste(model_path, 'mars_model.RData', sep='/')): an error when the
\* file is missing, which plumber answers with a server error
Load(r) ==
    /\ pc = "serving"
    /\ slots[r].pc = "arrived"
    /\ IF artifact.kind = "none"
       THEN /\ slots' = [slots EXCEPT ![r].pc = "done",
                                      ![r].resp = ErrorResponse]
            /\ UNCHANGED globalEnv
       ELSE LET got == load(artifact, globalEnv)
            IN /\ slots' = [slots EXCEPT ![r].pc = "loaded",
                                         ![r].seen = artifact,
                                         ![r].env = got.local]
               /\ globalEnv' = got.global
    /\ UNCHANGED <<notebook, process, disk, pingReply>>

\* the rest of the handler: lines 219-228
Score(r) ==
    /\ pc = "serving"
    /\ slots[r].pc = "loaded"
    /\ LET out == invocations(slots[r].env, postBody(r))
       IN slots' = [slots EXCEPT ![r].pc = "done",
                                 ![r].scoring_X = out.scoring_X,
                                 ![r].resp = out.resp]
    /\ UNCHANGED <<notebook, process, disk, globalEnv, pingReply>>

\* plumber sends the response; the handler's frame is gone
Deliver(r) ==
    /\ pc = "serving"
    /\ slots[r].pc = "done"
    /\ slots' = [slots EXCEPT ![r] = IdleSlot]
    /\ UNCHANGED <<notebook, process, disk, globalEnv, pingReply>>

\* POST /ping: the handler returns list(status='200', code='200')
Ping ==
    /\ pc = "serving"
    /\ pingReply = NoReply
    /\ pingReply' = PingPayload
    /\ UNCHANGED <<notebook, process, disk, globalEnv, slots>>

\* plumber sends the reply of POST /ping
PingSent ==
    /\ pc = "serving"
    /\ pingReply /= NoReply
    /\ pingReply' = NoReply
    /\ UNCHANGED <<notebook, process, disk, globalEnv, slots>>

\* Outside the process: the artifact file of a hosting container, one that
\* was started to serve and has not trained, is replaced by another one.
ReplaceArtifact ==
    /\ pc = "serving"
    /\ trainCalls = 0
    /\ artifact' \in ServingArtifacts \ {artifact}
    /\ UNCHANGED <<notebook, process, fitted, success, writes, serving>>

----------------------------------------------------------------------------

Next ==
    \/ DispatchTrain
    \/ TrainReadParams
    \/ TrainReadData
    \/ TrainModelMatrix
    \/ TrainFit
    \/ TrainSave
    \/ TrainWriteFitted
    \/ TrainWriteSuccess
    \/ DispatchServe
    \/ \E r \in 1..MaxInFlight : Arrive(r)
    \/ \E r \in 1..MaxInFlight : Load(r)
    \/ \E r \in 1..MaxInFlight : Score(r)
    \/ \E r \in 1..MaxInFlight : Deliver(r)
    \/ Ping
    \/ PingSent
    \/ ReplaceArtifact

Spec == Init /\ [][Next]_vars

----------------------------------------------------------------------------
(* The notebook: the create_training_job cell and the create_endpoint cell *)

container == <<args, pc, exitStatus, trainCalls, serveCalls, frame, artifact,
               fitted, success, writes, fitCall, globalEnv, slots, pingReply>>

JobTerminal == {"Completed", "Failed", "Stopped"}
EndpointTerminal == {"InService", "Failed"}

\* sm.create_training_job(**r_training_params)
CreateTrainingJob ==
    /\ notebook.cell = "train_create"
    /\ notebook' = [notebook EXCEPT !.cell = "train_describe",
                                    !.jobStatus = "InProgress"]
    /\ UNCHANGED container

\* the platform runs the training job to an end, or the job is stopped
JobProgress ==
    /\ \/ /\ notebook.jobStatus = "InProgress"
          /\ \E st \in {"Completed", "Failed", "Stopping"} :
                notebook' = [notebook EXCEPT !.jobStatus = st]
       \/ /\ notebook.jobStatus = "Stopping"
          /\ notebook' = [notebook EXCEPT !.jobStatus = "Stopped"]
    /\ UNCHANGED container

\* status = sm.describe_training_job(...)['TrainingJobStatus']; print(status)
DescribeTrainingJob ==
    /\ notebook.cell = "train_describe"
    /\ notebook' = [notebook EXCEPT !.cell = "train_wait",
                                    !.status = notebook.jobStatus]
    /\ UNCHANGED container

\* sm.get_waiter('TrainingJob_Created').wait(...): returns once the job has
\* come to an end; on a failed job the waiter of the SDK returns or raises
\* its own error, and it raises its own error when it runs out of attempts
\* on a job that has not come to an end; its error ends the cell
WaitTrainingJob ==
    /\ notebook.cell = "train_wait"
    /\ \/ /\ notebook.jobStatus \in JobTerminal
          /\ notebook' = [notebook EXCEPT !.cell = "train_check",
                                          !.jobAtReturn = notebook.jobStatus]
       \/ /\ notebook.jobStatus \in {"Failed", "InProgress", "Stopping"}
          /\ notebook' = [notebook EXCEPT !.cell = "raised",
                                          !.raised = "WaiterError"]
    /\ UNCHANGED container

\* if status == 'Failed': ... raise Exception('Training job failed')
CheckTrainingJob ==
    /\ notebook.cell = "train_check"
    /\ notebook' =
          IF notebook.status = "Failed"
          THEN [notebook EXCEPT !.cell = "raised", !.raised = "Training job failed"]
          ELSE [notebook EXCEPT !.cell = "create_model"]
    /\ UNCHANGED container

\* sm.describe_training_job(...)['ModelArtifacts']['S3ModelArtifacts'];
\* sm.create_model(...): a job that did not complete may have left no
\* artifacts to describe, and the cell then ends in a KeyError
CreateModel ==
    /\ notebook.cell = "create_model"
    /\ \/ notebook' = [notebook EXCEPT !.cell = "create_endpoint_config"]
       \/ /\ notebook.jobStatus /= "Completed"
          /\ notebook' = [notebook EXCEPT !.cell = "raised",
                                          !.raised = "KeyError"]
    /\ UNCHANGED container

\* sm.create_endpoint_config(...)
CreateEndpointConfig ==
    /\ notebook.cell = "create_endpoint_config"
    /\ notebook' = [notebook EXCEPT !.cell = "endpoint_create"]
    /\ UNCHANGED container

\* sm.create_endpoint(...)
CreateEndpoint ==
    /\ notebook.cell = "endpoint_create"
    /\ notebook' = [notebook EXCEPT !.cell = "endpoint_describe",
                                    !.endpointStatus = "Creating"]
    /\ UNCHANGED container

\* the platform brings the endpoint up, or fails to
EndpointProgress ==
    /\ notebook.endpointStatus = "Creating"
    /\ \E st \in EndpointTerminal :
          notebook' = [notebook EXCEPT !.endpointStatus = st]
    /\ UNCHANGED container

\* resp = sm.describe_endpoint(...); status = resp['EndpointStatus']
DescribeEndpoint ==
    /\ notebook.cell = "endpoint_describe"
    /\ notebook' = [notebook EXCEPT !.cell = "endpoint_wait",
                                    !.status = notebook.endpointStatus]
    /\ UNCHANGED container

\* sm.get_waiter('Endpoint_Created').wait(...)
WaitEndpoint ==
    /\ notebook.cell = "endpoint_wait"
    /\ \/ /\ notebook.endpointStatus \in EndpointTerminal
          /\ notebook' = [notebook EXCEPT !.cell = "endpoint_check",
                                          !.endpointAtReturn = notebook.endpointStatus]
       \/ /\ notebook.endpointStatus \in {"Failed", "Creating"}
          /\ notebook' = [notebook EXCEPT !.cell = "raised",
                                          !.raised = "WaiterError"]
    /\ UNCHANGED container

\* if status != 'InService': raise Exception('Endpoint creation did not
\* succeed')
CheckEndpoint ==
    /\ notebook.cell = "endpoint_check"
    /\ notebook' =
          IF notebook.status /= "InService"
          THEN [notebook EXCEPT !.cell = "raised",
                                !.raised = "Endpoint creation did not succeed"]
          ELSE [notebook EXCEPT !.cell = "done"]
    /\ UNCHANGED container

InitNotebook ==
    /\ Init
    /\ args = <<NoSave>>
    /\ artifact = NoFile

NextNotebook ==
    \/ CreateTrainingJob
    \/ JobProgress
    \/ DescribeTrainingJob
    \/ WaitTrainingJob
    \/ CheckTrainingJob
    \/ CreateModel
    \/ CreateEndpointConfig
    \/ CreateEndpoint
    \/ EndpointProgress
    \/ DescribeEndpoint
    \/ WaitEndpoint
    \/ CheckEndpoint

SpecNotebook == InitNotebook /\ [][NextNotebook]_vars

----------------------------------------------------------------------------
(* Properties *)

\* a word occurs in one of the process arguments
KeywordPresent(word) ==
    \E k \in DOMAIN args : \E pre, post \in 0..Len(args[k]) :
        /\ pre + Len(word) + post = Len(args[k])
        /\ \A i \in 1..Len(word) : args[k][pre + i] = word[i]

TrainPcs == {"t_params", "t_data", "t_matrix", "t_fit", "t_save", "t_fitted", "t_success"}

\* C1: at most one of train() and serve() is invoked in one process run,
\* whatever the arguments.
C1_MutuallyExclusive == ~(trainCalls > 0 /\ serveCalls > 0)

\* C2: when the arguments hold the training keyword, train() is invoked
\* exactly once and the process then terminates (it never goes on to
\* serve), with exit status zero when train() completed and non-zero when it
\* stopped on an error.
C2_TrainThenTerminate ==
    KeywordPresent(Train) =>
        /\ trainCalls = (IF pc = "start" THEN 0 ELSE 1)
        /\ pc /= "serving"
        /\ serveCalls = 0
        /\ pc = "exited" =>
              exitStatus = (IF success = SuccessFile THEN "zero" ELSE "nonzero")

\* C3: train() runs only with the training keyword among the arguments,
\* serve() only with the serving keyword, and with neither keyword nothing
\* runs: no file is written and no listener is started.
C3_OnlyWithKeyword ==
    /\ (trainCalls > 0 \/ pc \in TrainPcs) => KeywordPresent(Train)
    /\ (serveCalls > 0 \/ pc = "serving") => KeywordPresent(Serve)
    /\ (~KeywordPresent(Train) /\ ~KeywordPresent(Serve)) =>
          /\ trainCalls = 0
          /\ serveCalls = 0
          /\ writes = <<>>
          /\ fitted = NoFile
          /\ success = NoFile
          /\ pc \in {"start", "d_serve", "exited"}
          /\ pc = "exited" => exitStatus = "zero"

\* a process started without either keyword has run to its end
C3_Witness ==
    /\ ~KeywordPresent(Train)
    /\ ~KeywordPresent(Serve)
    /\ pc = "exited"

\* C4: the success marker exists only when the artifact and then the fitted
\* values have been written; the writes of a run happen in the order
\* artifact, fitted values, marker, and the marker is the last one.
C4_MarkerLast ==
    /\ \E n \in 0..3 : writes = SubSeq(<<ArtifactName, FittedName, SuccessName>>, 1, n)
    /\ success /= NoFile =>
          /\ writes = <<ArtifactName, FittedName, SuccessName>>
          /\ artifact.kind = "rdata"
          /\ fitted.kind = "csv"
    /\ Len(writes) >= 1 <=> (artifact /= NoFile /\ KeywordPresent(Train))
    /\ Len(writes) >= 2 <=> fitted /= NoFile

\* the marker has been written
C4_Witness == success = SuccessFile /\ Len(writes) = 3

\* the statement that follows each statement of train()
NextPc ==
    [ t_params |-> "t_data", t_data |-> "t_matrix", t_matrix |-> "t_fit",
      t_fit |-> "t_save", t_save |-> "t_fitted", t_fitted |-> "t_success",
      t_success |-> "d_serve" ]

\* C5: a step of train() either completes and hands over to the next step,
\* or it fails, and then the process is over at once with non-zero status:
\* the failed step wrote nothing, the marker is absent, serve() is not
\* invoked, and an exited process takes no further step (no later step, no
\* retry).
C5_FailureIsFinal ==
    [][ /\ pc /= "exited"
        /\ pc \in TrainPcs =>
              \/ /\ pc' = NextPc[pc]
                 /\ exitStatus' = "none"
              \/ /\ pc' = "exited"
                 /\ exitStatus' = "nonzero"
                 /\ success' = NoFile
                 /\ serveCalls' = 0
                 /\ trainCalls' = 1
                 /\ UNCHANGED <<artifact, fitted, success, writes>> ]_vars

\* train() failed at its last write, after the artifact and the fitted
\* values were written
C5_Witness ==
    /\ pc = "exited"
    /\ exitStatus = "nonzero"
    /\ writes = <<ArtifactName, FittedName>>
    /\ success = NoFile

\* the fields a design matrix was built from
FieldsOf(cols) == {cols[k].field : k \in DOMAIN cols} \ {"(Intercept)"}

\* a handled request whose body is a table of the fields the artifact was
\* trained on
Scored(r) ==
    /\ slots[r].pc = "done"
    /\ slots[r].seen.kind = "rdata"
    /\ slots[r].postBody /= <<>>
    /\ Range(slots[r].postBody[1]) = FieldsOf(slots[r].seen.mars_model.coef.x.cols)

\* C6: for every inference batch, the design matrix built for the request
\* has the column layout of the training design matrix, whatever values the
\* batch holds.
C6_SameLayout ==
    \A r \in 1..MaxInFlight :
        (/\ slots[r].pc = "done"
         /\ slots[r].seen.kind = "rdata"
         /\ slots[r].scoring_X /= NoMatrix) =>
            slots[r].scoring_X.cols = slots[r].seen.mars_model.coef.x.cols

\* C7: a request is answered from the artifact that was on disk when it was
\* handled: the handler's bindings are that file's contents, nothing is
\* kept in the global environment, and every prediction of the response
\* comes from that file's model.
C7_NoCachedModel ==
    /\ globalEnv = NoFile
    /\ \A r \in 1..MaxInFlight :
          /\ slots[r].pc = "loaded" => slots[r].env = slots[r].seen
          /\ (slots[r].pc = "done" /\ slots[r].resp.status = "200") =>
                \A i \in DOMAIN slots[r].resp.values :
                    slots[r].resp.values[i].coef = slots[r].seen.mars_model.coef

\* two answered requests, handled before and after a replacement of the
\* artifact
C7_Witness ==
    /\ slots[1].pc = "done"
    /\ slots[2].pc = "done"
    /\ slots[1].resp.status = "200"
    /\ slots[2].resp.status = "200"
    /\ slots[1].seen /= slots[2].seen
    /\ slots[2].seen = artifact

\* C8: POST /ping always answers the same payload, and answering it changes
\* nothing else: not the files, not the process, not the requests in flight.
C8_PingIsPure ==
    /\ [](pingReply \in {NoReply, [status |-> "200", code |-> "200"]})
    /\ [][pingReply' /= pingReply =>
            UNCHANGED <<args, pc, exitStatus, trainCalls, serveCalls, frame,
                        artifact, fitted, success, writes, fitCall, globalEnv,
                        slots>>]_vars

\* a ping is answered while a prediction request is between its load and its
\* scoring
C8_Witness ==
    /\ pingReply = [status |-> "200", code |-> "200"]
    /\ \E r \in 1..MaxInFlight : slots[r].pc = "loaded"

\* the response of a request handled alone against an artifact file
Alone(file, body) ==
    IF file.kind = "none" THEN ErrorResponse
    ELSE invocations(file, body).resp

\* C9: whatever the interleaving, the response of a request is the one it
\* gets alone against the artifact it found on disk; a step of one request
\* touches no other request, and after a failed request the server is still
\* serving.
C9_Independent ==
    /\ [](\A r \in 1..MaxInFlight :
            slots[r].pc = "done" =>
                slots[r].resp = Alone(slots[r].seen, slots[r].postBody))
    /\ [][\A r \in 1..MaxInFlight :
            slots'[r] /= slots[r] =>
                /\ \A q \in 1..MaxInFlight \ {r} : slots'[q] = slots[q]
                /\ pc' = "serving"
                /\ UNCHANGED <<artifact, fitted, success, globalEnv>>]_vars

\* a request failed on an empty body while another, arrived after it, was
\* answered
C9_Witness ==
    /\ slots[1].pc = "done"
    /\ slots[1].postBody = <<>>
    /\ slots[1].resp.status = "500"
    /\ slots[2].pc = "done"
    /\ slots[2].postBody = RequestText(<<"versicolor", NA_cell, "setosa">>)
    /\ slots[2].resp.status = "200"

\* the degree the claim expects for a value of the degree hyperparameter
ExpectedDegree(v) ==
    CASE v = JAbsent -> 2
      [] v = JNum(2) -> 2
      [] v = JStr(<<"2">>) -> 2
      [] v = JStr(<<"0", "2">>) -> 2
      [] v = JStr(<<"1">>) -> 1

\* C10: mars() is called with the numeric value of the degree hyperparameter,
\* and with 2 when the key is absent; with the key absent and with an
\* explicit 2 the call has the same arguments and gives the same model.
C10_DefaultDegree ==
    (pc \in {"t_save", "t_fitted", "t_success"} /\ frame.training_params.degree /= JNull) =>
        LET params == frame.training_params
            data == frame.training_data
            two == MarsCall(TrainingX(data, params.target),
                            TargetColumn(data, params.target),
                            [na |-> FALSE, v |-> 2])
        IN /\ fitCall.made
           /\ ~fitCall.degree.na
           /\ fitCall.degree.v = ExpectedDegree(params.degree)
           /\ params.degree \in {JAbsent, JNum(2), JStr(<<"2">>)} =>
                 /\ fitCall = two
                 /\ frame.model = mars(two)

\* train() has fitted with the degree key absent
C10_Witness ==
    /\ pc = "t_save"
    /\ frame.training_params.degree = JAbsent
    /\ fitCall.degree = [na |-> FALSE, v |-> 2]

\* the design-matrix row of a record of a request body, alone
RowOf(file, body, i) ==
    model_matrix(read_csv(<<body[1], body[i + 1]>>), file.factor_levels).rows

\* C11: a successful response is one line of exactly one prediction per
\* record of the request body, in record order, with a comma between
\* neighbours: n records give n values.
C11_OnePerRecord ==
    \A r \in 1..MaxInFlight :
        (Scored(r) /\ slots[r].resp.status = "200") =>
            LET n == Len(slots[r].postBody) - 1
                text == slots[r].resp.text
            IN /\ Len(text) = 2 * n - 1
               /\ \A i \in 1..n :
                     /\ ~text[2 * i - 1].comma
                     /\ text[2 * i - 1].value.coef = slots[r].seen.mars_model.coef
                     /\ <<text[2 * i - 1].value.x>>
                            = RowOf(slots[r].seen, slots[r].postBody, i)
               /\ \A i \in 1..(n - 1) : text[2 * i].comma

\* C12: the training cell raises 'Training job failed' exactly when the job
\* is Failed when the waiter returns, and the endpoint cell raises 'Endpoint
\* creation did not succeed' exactly when the endpoint is not InService when
\* the waiter returns.
C12_RaiseIffFailed ==
    /\ (notebook.jobAtReturn /= "" /\ notebook.cell /= "train_check") =>
          (notebook.raised = "Training job failed"
             <=> notebook.jobAtReturn = "Failed")
    /\ (notebook.endpointAtReturn /= "" /\ notebook.cell /= "endpoint_check") =>
          (notebook.raised = "Endpoint creation did not succeed"
             <=> notebook.endpointAtReturn /= "InService")

====
